---- MODULE Spec2Model ----
\* Position-sensitive ROI pooling (utils/psroi_module.py): the configuration
\* object psRoI_Info, the autograd function psRoI (forward / backward), the
\* launch geometry GET_BLOCKS, and the two device kernels they launch.
EXTENDS Integers, Sequences, FiniteSets, TLC

\* ---------------------------------------------------------------- bounds
\* outh, outw and group_size range over 1..MaxPool
MaxPool == 2
\* regions of one call, forward calls of one behaviour
MaxN == 2
MaxCalls == 2

\* ------------------------------------------------------------- constants
CUDA_NUM_THREADS == 1024

\* Python's None for the integer-valued fields.
None == 0 - 1

VARIABLES Info, ctxs, ncalls, last, bw, disp

vars == <<Info, ctxs, ncalls, last, bw, disp>>

\* ------------------------------------------------------------ arithmetic
Max(a, b) == IF a >= b THEN a ELSE b

Min(a, b) == IF a <= b THEN a ELSE b

\* floor(n/d) and ceil(n/d), d > 0
FloorDiv(n, d) == n \div d

CeilDiv(n, d) == (n + d - 1) \div d

\* round(n/d), halves away from zero (C's round), d > 0
Round(n, d) == IF n >= 0 THEN (2 * n + d) \div (2 * d) ELSE 0 - ((2 * (0 - n) + d) \div (2 * d))

Clip(v, lo, hi) == Min(Max(v, lo), hi)

RECURSIVE Gcd(_, _)
Gcd(a, b) == IF b = 0 THEN a ELSE Gcd(b, a % b)

RECURSIVE LcmUpTo(_)
LcmUpTo(n) == IF n <= 1 THEN 1 ELSE LET l == LcmUpTo(n - 1) IN (l * n) \div Gcd(l, n)

\* feature-map heights and widths
Dims == {1, 2}

\* Gradients are exact rationals; every bin area is hh*ww with hh, ww in Dims,
\* so they are kept as integer multiples of 1/Unit.
Unit == LcmUpTo(2) * LcmUpTo(2)

RECURSIVE SumFun(_, _)
SumFun(f, S) == IF S = {} THEN 0 ELSE LET e == CHOOSE e \in S : TRUE IN f[e] + SumFun(f, S \ {e})

\* ------------------------------------------------------------ input sets
\* spatial_scale as a fraction <<num, den>>
Scales == {<<1, 1>>, <<1, 2>>}

NoScale == <<None, 1>>

PoolSizes == (1..MaxPool) \X (1..MaxPool)

Groups == {None} \cup (1..MaxPool)

\* region coordinates (after the region-proposal stage, before scaling)
Coords == {0 - 1, 0, 1, 2}

\* a region [batch_ind, x_min, y_min, x_max, y_max] with x_min <= x_max, y_min <= y_max
Regions(batches) == {r \in batches \X Coords \X Coords \X Coords \X Coords : r[2] <= r[4] /\ r[3] <= r[5]}

\* feature maps: the size [B, C, H, W] and how the values are laid out
FeatureMaps(Bs, Cs, Hs, Ws, kinds) == [B : Bs, C : Cs, H : Hs, W : Ws, kind : kinds]

\* the value stored at a flat offset of the contiguous [B, C, H, W] buffer:
\* "const" fills channel c with c + 1, "ramp" stores offset + 1
XAt(x, addr) == IF x.kind = "const" THEN ((addr \div (x.H * x.W)) % x.C) + 1 ELSE addr + 1

\* what a read outside the buffer may return
JunkValues == {0, 9}

\* ------------------------------------------------------- launch geometry
GET_BLOCKS_floor(N, K) == N \div K

GET_BLOCKS(N, K) == (N + K - 1) \div K

\* ------------------------------------------------------ psRoI_Info.set_para
InfoInit == [outh |-> None, outw |-> None, spatial_scale |-> NoScale, group_size |-> None]

set_para(info, pool_size, spatial_scale, group_size) ==
    LET stored == [info EXCEPT !.outh = pool_size[1], !.outw = pool_size[2], !.spatial_scale = spatial_scale]
    IN IF group_size = None
       THEN IF pool_size[1] # pool_size[2]
            THEN [err |-> "ValueError", info |-> stored]
            ELSE [err |-> "", info |-> [stored EXCEPT !.group_size = pool_size[1]]]
       ELSE [err |-> "", info |-> [stored EXCEPT !.group_size = group_size]]

\* ------------------------------------------------------------ the kernels
\* position of flat element index in the contiguous [N, out_dim, outh, outw] output
ElemPw(index, outw) == index % outw

ElemPh(index, outh, outw) == (index \div outw) % outh

ElemC(index, out_dim, outh, outw) == ((index \div outw) \div outh) % out_dim

ElemN(index, out_dim, outh, outw) == ((index \div outw) \div outh) \div out_dim

RoiStart(coord, scale) == Round(coord * scale[1], scale[2])

RoiSize(lo, hi, scale) == Max(RoiStart(hi, scale) - RoiStart(lo, scale), 1)

\* first and one-past-last pixel of bin p (of `parts`) of a region starting at rs and
\* `roi` pixels long, along an axis of `size` pixels
BinStart(rs, roi, p, parts, size) == Clip(rs + FloorDiv(p * roi, parts), 0, size)

BinEnd(rs, roi, p, parts, size) == Clip(rs + CeilDiv((p + 1) * roi, parts), 0, size)

\* position-sensitive source channel
CSrc(ph, pw, c_out, group_size, out_dim) == (ph * group_size + pw) * out_dim + c_out

\* a region scaled into feature-map pixels: its batch, start and size on each axis
RoiGeometry(roi, scale) ==
    [batch |-> roi[1], rs_w |-> RoiStart(roi[2], scale), rs_h |-> RoiStart(roi[3], scale),
     roi_w |-> RoiSize(roi[2], roi[4], scale), roi_h |-> RoiSize(roi[3], roi[5], scale)]

RECURSIVE Geometry(_, _)
Geometry(rois, scale) ==
    IF rois = <<>> THEN <<>> ELSE <<RoiGeometry(Head(rois), scale)>> \o Geometry(Tail(rois), scale)

\* the batch and pixel window of one element; geom = Geometry(rois, scale)
Bin(index, geom, H, W, outh, outw, out_dim) ==
    LET g == geom[ElemN(index, out_dim, outh, outw) + 1]
        ph == ElemPh(index, outh, outw)
        pw == ElemPw(index, outw)
    IN [batch |-> g.batch,
        hstart |-> BinStart(g.rs_h, g.roi_h, ph, outh, H),
        hend |-> BinEnd(g.rs_h, g.roi_h, ph, outh, H),
        wstart |-> BinStart(g.rs_w, g.roi_w, pw, outw, W),
        wend |-> BinEnd(g.rs_w, g.roi_w, pw, outw, W)]

BinEmpty(b) == b.hend <= b.hstart \/ b.wend <= b.wstart

BinArea(b) == (b.hend - b.hstart) * (b.wend - b.wstart)

\* offset of (batch, c, h, w) from the data pointer of a contiguous [B, C, H, W] buffer
Offset(batch, c, h, w, C, H, W) == ((batch * C + c) * H + h) * W + w

InBuffer(addr, in_size) == addr >= 0 /\ addr < in_size[1] * in_size[2] * in_size[3] * in_size[4]

ReadX(x, addr, junk) == IF InBuffer(addr, <<x.B, x.C, x.H, x.W>>) THEN XAt(x, addr) ELSE junk

\* sum of the feature map over the offsets base + h*W + w of a window
RECURSIVE SumRow(_, _, _, _, _)
SumRow(x, junk, row, w, wend) ==
    IF w >= wend THEN 0 ELSE ReadX(x, row + w, junk) + SumRow(x, junk, row, w + 1, wend)

RECURSIVE SumWindow(_, _, _, _, _, _)
SumWindow(x, junk, base, b, h, W) ==
    IF h >= b.hend THEN 0
    ELSE SumRow(x, junk, base + h * W, b.wstart, b.wend) + SumWindow(x, junk, base, b, h + 1, W)

\* one task of PSROIPoolForward: the pooled value (a fraction), the channel it used,
\* and whether it read outside the feature map's buffer
ForwardElem(index, x, junk, args, geom) ==
    LET b == Bin(index, geom, args.H, args.W, args.outh, args.outw, args.out_dim)
        c == CSrc(ElemPh(index, args.outh, args.outw), ElemPw(index, args.outw),
                  ElemC(index, args.out_dim, args.outh, args.outw), args.group_size, args.out_dim)
        base == Offset(b.batch, c, 0, 0, args.C, args.H, args.W)
    IN IF BinEmpty(b)
       THEN [num |-> 0, den |-> 1, c |-> c, oob |-> FALSE]
       ELSE [num |-> SumWindow(x, junk, base, b, b.hstart, args.W), den |-> BinArea(b), c |-> c,
             oob |-> ~InBuffer(base + (b.hend - 1) * args.W + b.wend - 1, <<x.B, x.C, x.H, x.W>>)]

\* the element index a launched thread works on, if any (one element per thread)
ThreadHasWork(thread, count) == thread < count

Launched(index, grid) == index < grid * CUDA_NUM_THREADS

\* ------------------------------------------------------------ psRoI.forward
ChannelsDivisible_g(C, group_size) == C % group_size = 0

ChannelsDivisible(C, group_size) == C % (group_size * group_size) = 0

OutDim_g(C, group_size) == C \div group_size

OutDim(C, group_size) == C \div (group_size * group_size)

Numel(N, out_dim, outh, outw) == N * out_dim * outh * outw

ForwardArgs_hw(info, x, rois, out_dim, count) ==
    [count |-> count, spatial_scale |-> info.spatial_scale, C |-> x.C, H |-> x.W, W |-> x.H,
     outh |-> info.outh, outw |-> info.outw, rois |-> rois, out_dim |-> out_dim,
     group_size |-> info.group_size]

ForwardArgs(info, x, rois, out_dim, count) ==
    [count |-> count, spatial_scale |-> info.spatial_scale, C |-> x.C, H |-> x.H, W |-> x.W,
     outh |-> info.outh, outw |-> info.outw, rois |-> rois, out_dim |-> out_dim,
     group_size |-> info.group_size]

SavedTensors(info, x, rois, out_dim, count, mapping_channel) ==
    [count |-> count, N |-> Len(rois), out_dim |-> out_dim, outh |-> info.outh, outw |-> info.outw,
     in_size |-> <<x.B, x.C, x.H, x.W>>, spatial_scale |-> info.spatial_scale, rois |-> rois,
     mapping_channel |-> mapping_channel]

NoCall == [err |-> "", created |-> {}, grid |-> None, oob |-> FALSE]

\* the kernel's tasks, one per launched thread that has an element: <<e_0, ..., e_(count-1)>>,
\* an element no thread ran keeping the zero of its fresh tensors
RECURSIVE ForwardKernel(_, _, _, _, _, _)
ForwardKernel(index, grid, x, junk, args, geom) ==
    IF index >= Len(geom) * args.out_dim * args.outh * args.outw
    THEN <<>>
    ELSE <<IF Launched(index, grid) /\ ThreadHasWork(index, args.count)
           THEN ForwardElem(index, x, junk, args, geom)
           ELSE [num |-> 0, den |-> 1, c |-> 0, oob |-> FALSE]>>
         \o ForwardKernel(index + 1, grid, x, junk, args, geom)

forward(info, x, rois, junk) ==
    IF info.group_size = None
    THEN [NoCall EXCEPT !.err = "TypeError"]
    ELSE IF ~ChannelsDivisible(x.C, info.group_size)
    THEN [NoCall EXCEPT !.err = "ValueError"]
    ELSE LET out_dim == OutDim(x.C, info.group_size)
             count == Numel(Len(rois), out_dim, info.outh, info.outw)
             args == ForwardArgs(info, x, rois, out_dim, count)
             grid == GET_BLOCKS(count, CUDA_NUM_THREADS)
             elem == ForwardKernel(0, grid, x, junk, args, Geometry(args.rois, args.spatial_scale))
             output == [i \in 0..(count - 1) |-> [num |-> elem[i + 1].num, den |-> elem[i + 1].den]]
             mapping_channel == [i \in 0..(count - 1) |-> elem[i + 1].c]
         IN [err |-> "", created |-> {"output", "mapping_channel", "saved"}, grid |-> grid,
             oob |-> \E i \in 1..count : elem[i].oob,
             out_dim |-> out_dim, output |-> output,
             saved |-> SavedTensors(info, x, rois, out_dim, count, mapping_channel)]

\* ----------------------------------------------------------- psRoI.backward
\* grad_output: absent ("None"), all ones, or index + 1 at flat index
GradKinds == {"ones", "ramp"}

GradAt(grad_output, index) ==
    IF grad_output.kind = "ones" THEN 1 ELSE IF grad_output.kind = "ramp" THEN index + 1 ELSE 0

\* ctx.saved_tensors of the forward call this backward call is paired with
SavedOf_latest(contexts, k) == contexts[Len(contexts)].saved

SavedOf(contexts, k) == contexts[k].saved

BackwardArgs(saved) ==
    [count |-> saved.count, mapping_channel |-> saved.mapping_channel, N |-> saved.N,
     spatial_scale |-> saved.spatial_scale, C |-> saved.in_size[2], H |-> saved.in_size[3],
     W |-> saved.in_size[4], outh |-> saved.outh, outw |-> saved.outw, out_dim |-> saved.out_dim,
     rois |-> saved.rois]

\* the share of one element's gradient each pixel of its window receives, in 1/Unit
Share(grad, area) == (grad * Unit) \div area

\* the offset the k-th atomic addition of a task goes to (its window in row-major order)
TaskOffset(b, c, k, args) ==
    Offset(b.batch, c, b.hstart + (k \div (b.wend - b.wstart)), b.wstart + (k % (b.wend - b.wstart)),
           args.C, args.H, args.W)

TaskAdds(b) == IF BinEmpty(b) THEN 0 ELSE BinArea(b)

AtomicAdd(buffer, addr, v) == [buffer EXCEPT ![addr] = @ + v]

\* the windows of the tasks of PSROIPoolBackward: one per launched thread with an element
BackwardWindows(grid, args) ==
    LET geom == Geometry(args.rois, args.spatial_scale)
    IN [i \in {t \in 0..(args.count - 1) : Launched(t, grid) /\ ThreadHasWork(t, args.count)} |->
          Bin(i, geom, args.H, args.W, args.outh, args.outw, args.out_dim)]

NoGradient == [none |-> TRUE, created |-> {}, grid |-> None]

backward_launch(saved, grad_output) ==
    LET args == BackwardArgs(saved)
        grid == GET_BLOCKS(grad_output.numel, CUDA_NUM_THREADS)
        win == BackwardWindows(grid, args)
    IN [none |-> FALSE, created |-> {"grad_input"}, grid |-> grid, args |-> args,
        in_size |-> saved.in_size,
        grad_input |-> [a \in 0..(saved.in_size[1] * saved.in_size[2] * saved.in_size[3] * saved.in_size[4] - 1) |-> 0],
        win |-> win, pc |-> [i \in DOMAIN win |-> 0]]

backward_nocheck(saved, grad_output) == backward_launch(saved, grad_output)

backward(saved, grad_output) ==
    IF grad_output.kind = "None" THEN NoGradient ELSE backward_launch(saved, grad_output)

\* ---------------------------------------------------------------- actions
NoBackward == [running |-> FALSE]

NoDispatch == [stage |-> "off"]

Init ==
    /\ Info = InfoInit
    /\ ctxs = <<>>
    /\ ncalls = 0
    /\ last = [op |-> "init"]
    /\ bw = NoBackward
    /\ disp = NoDispatch

SetPara(pool_sizes, scales, groups) ==
    /\ ~bw.running
    /\ \E pool_size \in pool_sizes, spatial_scale \in scales, group_size \in groups :
         LET r == set_para(Info, pool_size, spatial_scale, group_size)
         IN /\ Info' = r.info
            /\ last' = [op |-> "set_para", err |-> r.err, pool_size |-> pool_size,
                        spatial_scale |-> spatial_scale, group_size |-> group_size]
    /\ UNCHANGED <<ctxs, ncalls, bw, disp>>

Forward(xs, regions, maxn, calls) ==
    /\ ~bw.running
    /\ ncalls < calls
    /\ ncalls' = ncalls + 1
    /\ \E x \in xs, n \in 0..maxn :
         \E rois \in [1..n -> {r \in regions : r[1] < x.B}] :
           LET r0 == forward(Info, x, rois, 0)
           IN \E junk \in (IF r0.oob THEN JunkValues ELSE {0}) :
             LET r == IF junk = 0 THEN r0 ELSE forward(Info, x, rois, junk)
             IN /\ last' = [op |-> "forward", x |-> x, rois |-> rois, info |-> Info, call |-> r]
                /\ ctxs' = IF r.err = "" THEN Append(ctxs, [saved |-> r.saved, used |-> FALSE]) ELSE ctxs
    /\ UNCHANGED <<Info, bw, disp>>

\* autograd hands backward a gradient shaped like the output of the paired forward call
Backward(kinds) ==
    /\ ~bw.running
    /\ \E k \in 1..Len(ctxs), kind \in kinds :
         /\ ~ctxs[k].used
         /\ LET grad_output == [kind |-> kind, numel |-> ctxs[k].saved.count]
                r == backward(SavedOf(ctxs, k), grad_output)
            IN /\ ctxs' = [ctxs EXCEPT ![k].used = TRUE]
               /\ last' = [op |-> "backward", k |-> k, grad_output |-> grad_output, none |-> r.none,
                           created |-> r.created, grid |-> r.grid, done |-> r.none]
               /\ bw' = IF r.none THEN NoBackward
                        ELSE [running |-> TRUE, k |-> k, grad_output |-> grad_output, args |-> r.args,
                              in_size |-> r.in_size, grad_input |-> r.grad_input, win |-> r.win,
                              pc |-> r.pc, oob |-> FALSE]
    /\ UNCHANGED <<Info, ncalls, disp>>

\* one atomic addition of one task of the running backward kernel
BackwardTask ==
    /\ bw.running
    /\ \E i \in DOMAIN bw.pc :
         /\ bw.pc[i] < TaskAdds(bw.win[i])
         /\ LET b == bw.win[i]
                addr == TaskOffset(b, bw.args.mapping_channel[i], bw.pc[i], bw.args)
                v == Share(GradAt(bw.grad_output, i), BinArea(b))
            IN bw' = [bw EXCEPT !.pc[i] = @ + 1,
                                !.grad_input = IF InBuffer(addr, bw.in_size) THEN AtomicAdd(@, addr, v) ELSE @,
                                !.oob = @ \/ ~InBuffer(addr, bw.in_size)]
    /\ UNCHANGED <<Info, ctxs, ncalls, last, disp>>

\* the kernel has finished: grad_input is what the caller reads
BackwardReturn ==
    /\ bw.running
    /\ \A i \in DOMAIN bw.pc : bw.pc[i] = TaskAdds(bw.win[i])
    /\ last' = [op |-> "backward", k |-> bw.k, grad_output |-> bw.grad_output, none |-> FALSE,
                created |-> last.created, grid |-> last.grid, done |-> TRUE,
                in_size |-> bw.in_size, grad_input |-> bw.grad_input, oob |-> bw.oob]
    /\ bw' = NoBackward
    /\ UNCHANGED <<Info, ctxs, ncalls, disp>>

\* --------------------------------------------------------- specifications
\* one configuration, then one forward call
\* the [1,4,4,4] map whose channel c holds c + 1, and the region covering it
ScenarioMap == [B |-> 1, C |-> 4, H |-> 4, W |-> 4, kind |-> "const"]

ScenarioRegion == <<0, 0, 0, 4, 4>>

ForwardMaps ==
    FeatureMaps({1}, {1, 2, 4, 8}, Dims, Dims, {"ramp"})
        \cup FeatureMaps({1}, {1, 4, 8, 9}, {2}, {2}, {"const"}) \cup {ScenarioMap}

NextForward ==
    \/ (last.op = "init" /\ SetPara(PoolSizes, Scales, Groups))
    \/ Forward(ForwardMaps, Regions({0}) \cup {ScenarioRegion}, 1, 1)

SpecForward == Init /\ [][NextForward]_vars

\* configuration calls, then one forward call and its backward call, task by task
BackwardMaps == FeatureMaps({1, 2}, {1}, {2}, {2}, {"ramp"})

BackwardRegions == {<<0, 0, 0, 2, 2>>, <<0, 1, 1, 2, 2>>, <<1, 0, 0, 2, 2>>}

NextBackward ==
    \/ (ncalls = 0 /\ SetPara(PoolSizes, Scales, Groups))
    \/ Forward(BackwardMaps, BackwardRegions, MaxN, 1)
    \/ Backward(GradKinds)
    \/ BackwardTask
    \/ BackwardReturn

SpecBackward == Init /\ [][NextBackward]_vars

\* calls in any order on one shared configuration object
SpecMaps == FeatureMaps({1}, {4}, {2}, {2}, {"ramp"})

SpecRegions == {<<0, 0, 0, 2, 1>>}

Next ==
    \/ SetPara({<<1, 1>>, <<2, 2>>}, Scales, {None})
    \/ Forward(SpecMaps, SpecRegions, 1, MaxCalls)
    \/ Backward({"ramp", "None"})
    \/ BackwardTask
    \/ BackwardReturn

Spec == Init /\ [][Next]_vars

\* the launch geometry alone, over element counts around the block size
DispatchOutDims == {1, 255, 256, 257, 1023, 1024, 1025}

DispatchDims == [N : 0..MaxN, out_dim : DispatchOutDims, outh : 1..MaxPool, outw : 1..MaxPool]

InitDispatch ==
    /\ Info = InfoInit
    /\ ctxs = <<>>
    /\ ncalls = 0
    /\ last = [op |-> "init"]
    /\ bw = NoBackward
    /\ disp \in {[stage |-> "dims", dims |-> d] : d \in DispatchDims}

\* forward: count = output.numel(), grid = GET_BLOCKS(count)
DispatchForward ==
    /\ disp.stage = "dims"
    /\ LET count == Numel(disp.dims.N, disp.dims.out_dim, disp.dims.outh, disp.dims.outw)
       IN disp' = [stage |-> "forward", dims |-> disp.dims,
                   fwd |-> [count |-> count, grid |-> GET_BLOCKS(count, CUDA_NUM_THREADS)]]
    /\ UNCHANGED <<Info, ctxs, ncalls, last, bw>>

\* backward: count is the saved one, grid = GET_BLOCKS(grad_output.numel())
DispatchBackward ==
    /\ disp.stage = "forward"
    /\ LET numel == Numel(disp.dims.N, disp.dims.out_dim, disp.dims.outh, disp.dims.outw)
       IN disp' = [stage |-> "backward", dims |-> disp.dims, fwd |-> disp.fwd,
                   bwd |-> [count |-> disp.fwd.count, grid |-> GET_BLOCKS(numel, CUDA_NUM_THREADS)]]
    /\ UNCHANGED <<Info, ctxs, ncalls, last, bw>>

NextDispatch == DispatchForward \/ DispatchBackward

SpecDispatch == InitDispatch /\ [][NextDispatch]_vars

\* ------------------------------------------------------------------ claims
ForwardOk == last.op = "forward" /\ last.call.err = ""

\* C1: forward with group_size = outH = outW = g, spatial_scale = 1 and one region
\* covering the whole map of constant channels gives, for every output channel
\* c_out and bin (ph, pw), the constant of channel (ph*g + pw)*out_dim + c_out,
\* and the channel mapping records that channel.
C1_PositionSensitiveChannels ==
    (/\ ForwardOk
     /\ last.x.kind = "const"
     /\ last.info.spatial_scale = <<1, 1>>
     /\ last.info.outh = last.info.group_size
     /\ last.info.outw = last.info.group_size
     /\ last.rois = <<<<0, 0, 0, last.x.W, last.x.H>>>>)
    => LET g == last.info.group_size
           out_dim == last.call.out_dim
       IN /\ DOMAIN last.call.output = 0..(out_dim * g * g - 1)
          /\ \A c_out \in 0..(out_dim - 1), ph \in 0..(g - 1), pw \in 0..(g - 1) :
               LET i == (c_out * g + ph) * g + pw
                   src == (ph * g + pw) * out_dim + c_out
               IN /\ last.call.output[i].den > 0
                  /\ last.call.output[i].num = (src + 1) * last.call.output[i].den
                  /\ last.call.saved.mapping_channel[i] = src

\* the [1,4,4,4] scenario: output_map[0,0] = [[1,2],[3,4]]
C1_Scenario ==
    /\ ForwardOk
    /\ last.x = ScenarioMap
    /\ last.rois = <<ScenarioRegion>>
    /\ last.info = [outh |-> 2, outw |-> 2, spatial_scale |-> <<1, 1>>, group_size |-> 2]
    /\ last.call.out_dim = 1
    /\ \A i \in 0..3 : last.call.output[i].den = 4 /\ last.call.output[i].num = 4 * (i + 1)

\* C3: a channel count not divisible by group_size^2 makes forward fail before any
\* tensor, saved state or kernel launch exists; a call that proceeds has
\* C = group_size^2 * out_dim.
C3_ShapeErrorBeforeAnyState ==
    (last.op = "forward" /\ last.info.group_size # None)
    => LET g2 == last.info.group_size * last.info.group_size
       IN /\ (last.x.C % g2 # 0)
               => (/\ last.call.err = "ValueError"
                   /\ last.call.created = {}
                   /\ last.call.grid = None
                   /\ ctxs = <<>>)
          /\ (last.x.C % g2 = 0) => last.call.err = ""
          /\ (last.call.err = "") => last.x.C = g2 * last.call.out_dim

C3_Rejected ==
    /\ last.op = "forward"
    /\ last.info.group_size = 2
    /\ last.x.C = 2
    /\ last.call.err = "ValueError"

\* C4: set_para with group_size omitted fails exactly when outH # outW, and a
\* failing call changes none of the configuration fields.
C4_FailedConfigureLeavesNoState ==
    [][last'.op = "set_para"
         => /\ (last'.err # "") <=> (last'.group_size = None /\ last'.pool_size[1] # last'.pool_size[2])
            /\ (last'.err # "") => Info' = Info]_vars

\* the gradient a backward call is to return, from the saved state of its forward
\* call and grad_output alone: every element's share, added at each pixel of its window
C_Share(saved, grad_output, geom, i, addr) ==
    LET b == Bin(i, geom, saved.in_size[3], saved.in_size[4], saved.outh, saved.outw, saved.out_dim)
        base == Offset(b.batch, saved.mapping_channel[i], 0, 0, saved.in_size[2], saved.in_size[3], saved.in_size[4])
    IN IF /\ ~BinEmpty(b)
          /\ \E h \in b.hstart..(b.hend - 1), w \in b.wstart..(b.wend - 1) : base + h * saved.in_size[4] + w = addr
       THEN Share(GradAt(grad_output, i), BinArea(b))
       ELSE 0

C_ExpectedGrad(saved, grad_output) ==
    LET geom == Geometry(saved.rois, saved.spatial_scale)
    IN [addr \in 0..(saved.in_size[1] * saved.in_size[2] * saved.in_size[3] * saved.in_size[4] - 1) |->
          SumFun([i \in 0..(saved.count - 1) |-> C_Share(saved, grad_output, geom, i, addr)], 0..(saved.count - 1))]

\* C2: whatever the order of the tasks, the gradient at (batch, c, h, w) is the sum
\* of GradOutput/bin_area over the elements of that batch whose source channel is c
\* and whose non-empty window holds (h, w).
C2_GradientIsSumOfShares ==
    (last.op = "backward" /\ last.done /\ ~last.none)
    => LET saved == ctxs[last.k].saved
           geom == Geometry(saved.rois, saved.spatial_scale)
           C == saved.in_size[2]
           H == saved.in_size[3]
           W == saved.in_size[4]
           win == [i \in 0..(saved.count - 1) |-> Bin(i, geom, H, W, saved.outh, saved.outw, saved.out_dim)]
       IN \A batch \in 0..(saved.in_size[1] - 1), c \in 0..(C - 1), h \in 0..(H - 1), w \in 0..(W - 1) :
            LET from == {i \in 0..(saved.count - 1) :
                           /\ ~BinEmpty(win[i])
                           /\ win[i].batch = batch
                           /\ saved.mapping_channel[i] = c
                           /\ h >= win[i].hstart /\ h < win[i].hend
                           /\ w >= win[i].wstart /\ w < win[i].wend}
            IN last.grad_input[Offset(batch, c, h, w, C, H, W)]
                 = SumFun([i \in from |-> Share(GradAt(last.grad_output, i), BinArea(win[i]))], from)

\* C5 (as claimed): backward with an absent GradOutput launches nothing and returns
\* a zero gradient for the feature map.
C5_AbsentGradientReturnsZeros ==
    (last.op = "backward" /\ last.grad_output.kind = "None")
    => /\ last.done
       /\ last.grid = None
       /\ ~bw.running
       /\ ~last.none
       /\ \A addr \in DOMAIN last.grad_input : last.grad_input[addr] = 0

\* C5 (amended): backward with an absent GradOutput is a no-op that launches no
\* kernel, allocates no gradient tensor and returns None (no gradient) for the
\* feature map.
C5_AbsentGradientReturnsNone ==
    (last.op = "backward" /\ last.grad_output.kind = "None")
    => /\ last.done
       /\ last.none
       /\ last.created = {}
       /\ last.grid = None
       /\ bw = NoBackward

C5_AbsentGradientSeen ==
    /\ last.op = "backward"
    /\ last.grad_output.kind = "None"
    /\ ctxs[last.k].saved.count > 0

C6_Point(roi) == roi[2] = roi[4] /\ roi[3] = roi[5]

C6_Outside(roi, scale, H, W) ==
    \/ RoiStart(roi[4], scale) < 0
    \/ RoiStart(roi[2], scale) >= W
    \/ RoiStart(roi[5], scale) < 0
    \/ RoiStart(roi[3], scale) >= H

C6_PixelInside(roi, scale, H, W) ==
    /\ RoiStart(roi[2], scale) >= 0 /\ RoiStart(roi[2], scale) < W
    /\ RoiStart(roi[3], scale) >= 0 /\ RoiStart(roi[3], scale) < H

\* C6 (as claimed): a region collapsing to a single point, or lying fully outside
\* the feature map, gives output 0 in every bin, with no division by a zero area.
C6_DegenerateRegionIsZero ==
    (/\ ForwardOk
     /\ Len(last.rois) = 1
     /\ \/ C6_Point(last.rois[1])
        \/ C6_Outside(last.rois[1], last.info.spatial_scale, last.x.H, last.x.W))
    => \A i \in DOMAIN last.call.output :
         last.call.output[i].den > 0 /\ last.call.output[i].num = 0

\* C6 (amended): a region fully outside the feature map gives 0 in every bin; a
\* region collapsing to a single point is one pixel wide and high, so each bin is
\* the value of pixel (rs_h, rs_w) of its source channel over a bin area of 1, and
\* 0 only when that pixel lies outside the map; no bin divides by a zero area.
C6_DegenerateRegionPoolsOnePixel ==
    (ForwardOk /\ Len(last.rois) = 1)
    => LET roi == last.rois[1]
           scale == last.info.spatial_scale
           x == last.x
           out == last.call.output
           c == last.call.saved.mapping_channel
       IN /\ \A i \in DOMAIN out : out[i].den > 0
          /\ C6_Outside(roi, scale, x.H, x.W) => \A i \in DOMAIN out : out[i].num = 0
          /\ (C6_Point(roi) /\ ~C6_PixelInside(roi, scale, x.H, x.W)) => \A i \in DOMAIN out : out[i].num = 0
          /\ (C6_Point(roi) /\ C6_PixelInside(roi, scale, x.H, x.W))
               => \A i \in DOMAIN out :
                    /\ out[i].den = 1
                    /\ (c[i] < x.C)
                         => out[i].num = XAt(x, Offset(roi[1], c[i], RoiStart(roi[3], scale), RoiStart(roi[2], scale), x.C, x.H, x.W))

C6_PointRegionPooled ==
    /\ ForwardOk
    /\ last.x.kind = "ramp"
    /\ last.rois = <<<<0, 1, 1, 1, 1>>>>
    /\ last.info.spatial_scale = <<1, 1>>
    /\ last.x.H = 2 /\ last.x.W = 2
    /\ \E i \in DOMAIN last.call.output : last.call.output[i].num > 0

\* C7: with group_size = 1 every output element of every output size pools from
\* source channel c_src = c_out.
C7_GroupOneIsPlainPooling ==
    (ForwardOk /\ last.info.group_size = 1)
    => \A i \in DOMAIN last.call.saved.mapping_channel :
         last.call.saved.mapping_channel[i]
           = (i \div (last.info.outh * last.info.outw)) % last.call.out_dim

\* C8: a forward call creates its own saved state, no later call changes the saved
\* state of an earlier one, and what a backward call returns is fixed by its
\* GradOutput and the state its own forward call saved.
C8_SavedStateIsPerCall ==
    [][/\ \A k \in 1..Len(ctxs) : Len(ctxs') >= k /\ ctxs'[k].saved = ctxs[k].saved
       /\ (ncalls' = ncalls + 1 /\ last'.call.err = "")
            => /\ Len(ctxs') = Len(ctxs) + 1
               /\ ctxs'[Len(ctxs')] = [saved |-> last'.call.saved, used |-> FALSE]
       /\ (bw.running /\ ~bw'.running)
            => last'.grad_input = C_ExpectedGrad(ctxs[bw.k].saved, bw.grad_output)]_vars

C8_BackwardAfterOtherCalls ==
    /\ last.op = "backward" /\ last.done /\ ~last.none
    /\ Len(ctxs) = 2
    /\ ctxs[1].saved # ctxs[2].saved
    /\ ctxs[last.k].saved.outh # Info.outh
    /\ ctxs[last.k].saved.spatial_scale # Info.spatial_scale
    /\ \E addr \in DOMAIN last.grad_input : last.grad_input[addr] # 0

\* C9: a launch for count elements starts GET_BLOCKS(count) blocks of 1024 threads:
\* every index below count has its thread, no thread works on an index from count
\* on, fewer than 1024 threads are surplus, and backward launches as forward did.
C9_LaunchCovers(launch) ==
    /\ \A i \in 0..(launch.count - 1) : Launched(i, launch.grid) /\ ThreadHasWork(i, launch.count)
    /\ \A t \in launch.count..(launch.grid * CUDA_NUM_THREADS - 1) : ~ThreadHasWork(t, launch.count)
    /\ launch.grid * CUDA_NUM_THREADS - launch.count >= 0
    /\ launch.grid * CUDA_NUM_THREADS - launch.count < 1024

\* C9: see C9_LaunchCovers; count = N*out_dim*outH*outW for both launches.
C9_DispatchPartitionsIndexSpace ==
    /\ disp.stage \in {"forward", "backward"}
         => /\ disp.fwd.count = disp.dims.N * disp.dims.out_dim * disp.dims.outh * disp.dims.outw
            /\ C9_LaunchCovers(disp.fwd)
    /\ disp.stage = "backward"
         => /\ C9_LaunchCovers(disp.bwd)
            /\ disp.bwd = disp.fwd

C9_TwoBlocks ==
    /\ disp.stage = "backward"
    /\ disp.bwd.count = 1025
    /\ disp.bwd.grid = 2

\* C10: for every accepted configuration and every feature map passing the
\* divisibility check, every output element's source channel lies in [0, C) and
\* every pixel of a non-empty window in [0, H) x [0, W): no access leaves the map.
C10_AccessWithinFeatureMap ==
    ForwardOk
    => LET geom == Geometry(last.rois, last.info.spatial_scale)
       IN /\ ~last.call.oob
          /\ \A i \in DOMAIN last.call.saved.mapping_channel :
               /\ last.call.saved.mapping_channel[i] >= 0
               /\ last.call.saved.mapping_channel[i] < last.x.C
               /\ LET b == Bin(i, geom, last.x.H, last.x.W, last.info.outh, last.info.outw, last.call.out_dim)
                  IN ~BinEmpty(b) => (b.hstart >= 0 /\ b.hend <= last.x.H /\ b.wstart >= 0 /\ b.wend <= last.x.W)

====
